---- MODULE Spec2Model ----
(***************************************************************************)
(* A model of migratable-json-document: the Registry of versioned          *)
(* serializable classes (src/src/MigratableJsonDocument.ts), exercised     *)
(* with the Widget classes of src/src/MigratableJsonDocument.test.ts.      *)
(***************************************************************************)
EXTENDS Integers, Sequences, FiniteSets, TLC

\* ------------------------------------------------------------------ bounds
\* register calls that add a new entry are enabled while fewer than
\* MaxRegistrations entries are stored over all registries
MaxRegistrations == 2

\* ------------------------------------------------------------- JS values
\* A JavaScript value that can sit in a field: a string, a number or
\* undefined.  All three have the same shape so that any two compare.
Str(s) == [t |-> "string", s |-> s, n |-> 0]
Num(n) == [t |-> "number", s |-> "", n |-> n]
Undefined == [t |-> "undefined", s |-> "", n |-> 0]

\* String(x), the coercion Symbol.for applies to its argument
ToJsString(v) ==
    IF v.t = "string" THEN v.s
    ELSE IF v.t = "number" THEN ToString(v.n)
    ELSE "undefined"

\* A plain object: its own enumerable properties in insertion order.
EmptyObject == << >>
Prop(k, v) == [key |-> k, value |-> v]
Keys(obj) == { obj[i].key : i \in 1..Len(obj) }
Has(obj, k) == k \in Keys(obj)
\* obj[k] (undefined when the property is absent)
Get(obj, k) ==
    IF Has(obj, k)
    THEN (CHOOSE p \in { obj[i] : i \in 1..Len(obj) } : p.key = k).value
    ELSE Undefined
\* obj[k] = v: an existing key keeps its position, a new key is appended
Assign(obj, k, v) ==
    IF Has(obj, k)
    THEN [ i \in 1..Len(obj) |-> IF obj[i].key = k THEN Prop(k, v) ELSE obj[i] ]
    ELSE Append(obj, Prop(k, v))
\* the rest pattern of a destructuring: obj without the keys in ks
Without(obj, ks) == SelectSeq(obj, LAMBDA p : p.key \notin ks)
\* the unordered content of an object, as deep equality sees it
AsMap(obj) == [ k \in Keys(obj) |-> Get(obj, k) ]

\* ---------------------------------------------------------------- symbols
\* A symbol is its description and whether it lives in the global symbol
\* registry: Symbol.for(name) is the one interned symbol of that name,
\* Symbol(name) is a fresh symbol and equal to no interned one.
SymbolFor(name) == [description |-> name, interned |-> TRUE]
SymbolLocal(name) == [description |-> name, interned |-> FALSE]
WidgetTypeToken == SymbolFor("Widget")
\* the type tokens handed to register: the interned token of the tests and
\* a fresh symbol with the same description
Tokens == { WidgetTypeToken, SymbolLocal("Widget") }
\* the version numbers the tests register, and the one they leave out
Versions == { 1, 2 }
UnregisteredVersionTag == 3

MIGRATABLE_TYPE == "__migratable_type"
MIGRATABLE_VERSION == "__migratable_version"

\* ------------------------------------------------------- function objects
\* The classes of the test file, and the two kinds of function object the
\* registry meets: a class constructor, and the arrow function
\* (...args) => new constructor(...args) that register stores.
Ctors == { "WidgetV1", "WidgetV2" }
Class(c) == [kind |-> "class", of |-> c]
Arrow(c) == [kind |-> "arrow", of |-> c]

Registries == { "global", "registry" }

VARIABLES
    byTypeToken,   \* per registry: Map<symbol, Map<number, Function>>
    stamp,         \* per constructor: its __migratable_* properties
    toJSON,        \* the serializer last returned by serialize (at most one)
    last           \* the last call made and its outcome

vars == << byTypeToken, stamp, toJSON, last >>

\* an empty Map, and a constructor function without the marker properties
EmptyMap == << >>
NoStamp == << >>

\* number of entries stored over all registries
Stored(m) ==
    { <<r, t, v>> \in Registries \X Tokens \X Versions :
        t \in DOMAIN m[r] /\ v \in DOMAIN m[r][t] }

Init ==
    /\ byTypeToken = [ r \in Registries |-> EmptyMap ]
    /\ stamp = [ c \in Ctors |-> NoStamp ]
    /\ toJSON = {}
    /\ last = [op |-> "new Registry"]

\* Map.set
MapSet(m, k, x) == [ j \in (DOMAIN m) \cup {k} |-> IF j = k THEN x ELSE m[j] ]

\* the value register stores for a constructor
StoredFor(c) == Arrow(c)

\* register with the two stamping assignments moved above the conflict
\* check: a rejected constructor is stamped all the same
register_stampFirst(m, st, type, version, constructor) ==
    LET byVersion0 == IF type \in DOMAIN m THEN m[type] ELSE EmptyMap
        m1 == IF type \in DOMAIN m THEN m ELSE MapSet(m, type, EmptyMap)
        known == version \in DOMAIN byVersion0
        stamped == [ st EXCEPT ![constructor] = [type |-> type, version |-> version] ]
    IN  IF ~known
        THEN [ map |-> MapSet(m1, type, MapSet(byVersion0, version, StoredFor(constructor))),
               stamp |-> stamped, error |-> "" ]
        ELSE IF byVersion0[version] # Class(constructor)
        THEN [ map |-> m1, stamp |-> stamped, error |-> "RegistrationConflict" ]
        ELSE [ map |-> m1, stamp |-> stamped, error |-> "" ]

\* register that stamps the version but leaves __migratable_type of an
\* already stamped constructor as it was
register_keepType(m, st, type, version, constructor) ==
    LET byVersion0 == IF type \in DOMAIN m THEN m[type] ELSE EmptyMap
        m1 == IF type \in DOMAIN m THEN m ELSE MapSet(m, type, EmptyMap)
        known == version \in DOMAIN byVersion0
        stamped == [ st EXCEPT ![constructor] =
                       [type |-> IF "type" \in DOMAIN st[constructor]
                                 THEN st[constructor].type ELSE type,
                        version |-> version] ]
    IN  IF ~known
        THEN [ map |-> MapSet(m1, type, MapSet(byVersion0, version, StoredFor(constructor))),
               stamp |-> stamped, error |-> "" ]
        ELSE IF byVersion0[version] # Class(constructor)
        THEN [ map |-> m1, stamp |-> st, error |-> "RegistrationConflict" ]
        ELSE [ map |-> m1, stamp |-> stamped, error |-> "" ]

\* register that rebinds a stored pair to the newcomer instead of
\* rejecting it
register_overwrite(m, st, type, version, constructor) ==
    LET byVersion0 == IF type \in DOMAIN m THEN m[type] ELSE EmptyMap
        m1 == IF type \in DOMAIN m THEN m ELSE MapSet(m, type, EmptyMap)
    IN  [ map |-> MapSet(m1, type, MapSet(byVersion0, version, StoredFor(constructor))),
          stamp |-> [ st EXCEPT ![constructor] =
                        [type |-> type, version |-> version] ],
          error |-> "" ]

\* register(type, version, constructor) on registry storage m with the
\* constructor properties st: the storage and properties it leaves, and
\* the error it throws ("" when it returns)
register(m, st, type, version, constructor) ==
    LET byVersion0 == IF type \in DOMAIN m THEN m[type] ELSE EmptyMap
        m1 == IF type \in DOMAIN m THEN m ELSE MapSet(m, type, EmptyMap)
        known == version \in DOMAIN byVersion0
    IN  IF ~known
        THEN [ map |-> MapSet(m1, type, MapSet(byVersion0, version, StoredFor(constructor))),
               stamp |-> [ st EXCEPT ![constructor] =
                             [type |-> type, version |-> version] ],
               error |-> "" ]
        ELSE IF byVersion0[version] # Class(constructor)
        THEN [ map |-> m1, stamp |-> st, error |-> "RegistrationConflict" ]
        ELSE [ map |-> m1,
               stamp |-> [ st EXCEPT ![constructor] =
                             [type |-> type, version |-> version] ],
               error |-> "" ]

\* registrationOf(constructorFn): reads the marker properties, then checks
\* them against the storage.  type.description is evaluated before the
\* check that type is defined.
registrationOf(m, st, constructorFn) ==
    LET hasType == "type" \in DOMAIN st[constructorFn]
        hasVersion == "version" \in DOMAIN st[constructorFn]
    IN  IF ~hasType THEN [error |-> "TypeError"]
        ELSE IF ~hasVersion THEN [error |-> "InvariantViolation"]
        ELSE IF st[constructorFn].type \notin DOMAIN m
        THEN [error |-> "InvariantViolation"]
        ELSE IF st[constructorFn].version \notin DOMAIN m[st[constructorFn].type]
        THEN [error |-> "InvariantViolation"]
        ELSE [error |-> "", type |-> st[constructorFn].type,
              version |-> st[constructorFn].version]

\* ------------------------------------------------------------------- JSON
\* JSON text of an object is the sequence of its members, each a key and
\* the literal of its value: a string in double quotes, a number in digits.
Literal(v) == IF v.t = "string" THEN "\"" \o v.s \o "\"" ELSE ToString(v.n)
Member(k, lit) == [key |-> k, lit |-> lit]

\* JSON.stringify(obj): a property whose value is undefined is left out
RECURSIVE JSONstringify(_)
JSONstringify(obj) ==
    IF obj = << >> THEN << >>
    ELSE IF Head(obj).value.t = "undefined" THEN JSONstringify(Tail(obj))
    ELSE << Member(Head(obj).key, Literal(Head(obj).value)) >>
            \o JSONstringify(Tail(obj))

\* the strings and numbers whose literals the texts of the model contain
Strings == { "circle", "triangle", "blue", "red", "Widget", "Gadget" }
JsonValues ==
    { Str(s) : s \in Strings }
      \cup { Num(n) : n \in Versions \cup { UnregisteredVersionTag } }
IsLiteral(lit) == \E v \in JsonValues : Literal(v) = lit
ParseLiteral(lit) == CHOOSE v \in JsonValues : Literal(v) = lit

\* JSON.parse(text) of a well-formed text; a repeated key keeps its first
\* position and its last value
WellFormed(text) == \A i \in 1..Len(text) : IsLiteral(text[i].lit)
RECURSIVE ParseInto(_, _)
ParseInto(obj, text) ==
    IF text = << >> THEN obj
    ELSE ParseInto(Assign(obj, Head(text).key, ParseLiteral(Head(text).lit)),
                   Tail(text))
JSONparse(text) == ParseInto(EmptyObject, text)

\* --------------------------------------------------- the classes of the test
\* new WidgetV1(state), new WidgetV2(state): each copies the fields it
\* declares from its argument.  WidgetV0 is a class as an application may
\* declare one more version back: it has no fields, and it implements
\* IUpgradeableTo<WidgetV1>.
New(c, state) ==
    IF c = "WidgetV0"
    THEN [class |-> "WidgetV0", props |-> EmptyObject]
    ELSE IF c = "WidgetV1"
    THEN [class |-> "WidgetV1",
          props |-> << Prop("shape", Get(state, "shape")) >>]
    ELSE [class |-> "WidgetV2",
          props |-> << Prop("shape", Get(state, "shape")),
                       Prop("color", Get(state, "color")) >>]

\* 'upgrade' in instance
HasUpgrade(instance) == instance.class \in { "WidgetV0", "WidgetV1" }

\* WidgetV1.upgrade(): new WidgetV2({...this, color: 'red'}), and in the
\* same way WidgetV0.upgrade(): new WidgetV1({...this, shape: 'circle'})
Upgrade(instance) ==
    IF instance.class = "WidgetV0"
    THEN New("WidgetV1", Assign(instance.props, "shape", Str("circle")))
    ELSE New("WidgetV2", Assign(instance.props, "color", Str("red")))

\* WidgetV1.defaultValue, WidgetV2.defaultValue
Providers == { "WidgetV1.defaultValue", "WidgetV2.defaultValue" }
CallProvider(d) ==
    IF d = "WidgetV1.defaultValue"
    THEN New("WidgetV1", << Prop("shape", Str("triangle")) >>)
    ELSE New("WidgetV2", << Prop("shape", Str("rectangle")),
                            Prop("color", Str("blue")) >>)

\* expect(a).toStrictEqual(b): same class, same properties with the same
\* values, in any order
StrictEqual(a, b) == a.class = b.class /\ AsMap(a.props) = AsMap(b.props)

\* calling a stored function with the constructor argument
Invoke(fn, arg) == New(fn.of, arg)

\* an if in place of the while: one upgrade step at most
UpgradeLoop_once(deserialized, steps) ==
    IF HasUpgrade(deserialized)
    THEN [value |-> Upgrade(deserialized), upgrades |-> steps + 1]
    ELSE [value |-> deserialized, upgrades |-> steps]

\* no loop: the instance is returned as constructed
UpgradeLoop_none(deserialized, steps) ==
    [value |-> deserialized, upgrades |-> steps]

\* the loop  while ('upgrade' in deserialized) deserialized = deserialized.upgrade()
\* with the number of steps it took
RECURSIVE UpgradeLoop(_, _)
UpgradeLoop(deserialized, steps) ==
    IF HasUpgrade(deserialized)
    THEN UpgradeLoop(Upgrade(deserialized), steps + 1)
    ELSE [value |-> deserialized, upgrades |-> steps]

\* ------------------------------------------------------------ deserialize
\* An argument of a deserializer: null, undefined, an object, or a string.
Null == [form |-> "null", obj |-> EmptyObject, text |-> << >>]
Undef == [form |-> "undefined", obj |-> EmptyObject, text |-> << >>]
Object(obj) == [form |-> "object", obj |-> obj, text |-> << >>]
Text(text) == [form |-> "string", obj |-> EmptyObject, text |-> text]

\* the test for null alone
IsNullOrUndefined_nullOnly(json) == json.form = "null"

\* json === null || json === undefined
IsNullOrUndefined(json) == json.form \in { "null", "undefined" }

\* the whole record handed on, reserved fields included
ConstructorArg_unstripped(serialized) == serialized

\* the rest pattern ...constructorArg of the destructuring
ConstructorArg(serialized) ==
    Without(serialized, { MIGRATABLE_TYPE, MIGRATABLE_VERSION })

\* a lookup that falls back on the highest registered version
VersionSpecificDeserializer_closest(byVersion, migratable_version) ==
    IF migratable_version.t = "number" /\ migratable_version.n \in DOMAIN byVersion
    THEN { byVersion[migratable_version.n] }
    ELSE { byVersion[CHOOSE v \in DOMAIN byVersion :
                        \A w \in DOMAIN byVersion : w <= v] }

\* byVersion.get(__migratable_version): Map keys are compared by value and
\* type, and there is no search for a neighbouring version
VersionSpecificDeserializer(byVersion, migratable_version) ==
    IF migratable_version.t = "number" /\ migratable_version.n \in DOMAIN byVersion
    THEN { byVersion[migratable_version.n] }
    ELSE { }

\* deserialize(valueOnNullOrUndefined)(json) on registry storage m.
\* Besides the error thrown ("" when it returns) and the value returned,
\* the result counts the Map lookups made, lists the factories invoked
\* with their arguments, and counts the upgrade steps.
deserialize(m, valueOnNullOrUndefined, json) ==
    IF IsNullOrUndefined(json)
    THEN [error |-> "", value |-> CallProvider(valueOnNullOrUndefined),
          lookups |-> 0, invoked |-> << >>, upgrades |-> 0]
    ELSE IF json.form = "string" /\ ~WellFormed(json.text)
    THEN [error |-> "SyntaxError", lookups |-> 0, invoked |-> << >>, upgrades |-> 0]
    ELSE
    LET serialized == IF json.form = "string" THEN JSONparse(json.text) ELSE json.obj
        migratable_type == Get(serialized, MIGRATABLE_TYPE)
        migratable_version == Get(serialized, MIGRATABLE_VERSION)
        constructorArg == ConstructorArg(serialized)
        typeSymbol == SymbolFor(ToJsString(migratable_type))
    IN  IF typeSymbol \notin DOMAIN m
        THEN [error |-> "UnregisteredType", lookups |-> 1,
              invoked |-> << >>, upgrades |-> 0]
        ELSE
        LET found == VersionSpecificDeserializer(m[typeSymbol], migratable_version)
        IN  IF found = { }
            THEN [error |-> "UnregisteredVersion", lookups |-> 2,
                  invoked |-> << >>, upgrades |-> 0]
            ELSE
            LET versionSpecificDeserializer == CHOOSE f \in found : TRUE
                walked == UpgradeLoop(Invoke(versionSpecificDeserializer, constructorArg), 0)
            IN  [error |-> "", value |-> walked.value, lookups |-> 2,
                 invoked |-> << [fn |-> versionSpecificDeserializer,
                                 arg |-> constructorArg] >>,
                 upgrades |-> walked.upgrades]

\* -------------------------------------------------------------- serialize
\* serialize that tags with the highest version registered for the type
serialize_latest(m, st, constructorFn) ==
    LET found == registrationOf(m, st, constructorFn)
    IN  IF found.error # "" THEN [error |-> found.error]
        ELSE [error |-> "", type |-> found.type,
              version |-> CHOOSE v \in DOMAIN m[found.type] :
                             \A w \in DOMAIN m[found.type] : w <= v]

\* serialize(constructorFn): resolves the registration, then returns the
\* serializer, a closure over type and version
serialize(m, st, constructorFn) ==
    LET found == registrationOf(m, st, constructorFn)
    IN  IF found.error # "" THEN [error |-> found.error]
        ELSE [error |-> "", type |-> found.type, version |-> found.version]

\* a serializer that resolves the registration on each call
Serializer_perCall(type, version, instance) ==
    JSONstringify(
        Assign(Assign(instance.props, MIGRATABLE_TYPE,
                      Str(stamp[instance.class].type.description)),
               MIGRATABLE_VERSION, Num(stamp[instance.class].version)))

\* the serializer: JSON.stringify({...instance, [__MIGRATABLE_TYPE]:
\* type.description, [__MIGRATABLE_VERSION]: version})
Serializer(type, version, instance) ==
    JSONstringify(
        Assign(Assign(instance.props, MIGRATABLE_TYPE, Str(type.description)),
               MIGRATABLE_VERSION, Num(version)))

\* ----------------------------------------------------------------- inputs
\* instances of a class: what its constructor makes of field data, with
\* and without a color
Instances(c) ==
    IF c = "WidgetV1"
    THEN { New(c, << Prop("shape", Str("circle")) >>) }
    ELSE { New(c, << Prop("shape", Str("circle")), Prop("color", Str("blue")) >>),
           New(c, << Prop("shape", Str("circle")) >>) }

\* serialized records as the tests write them: the two tags first, then
\* the fields; a version 1 record has no color
TagNames == { "Widget", "Gadget" }
Tagged(name, v, fields) ==
    << Prop(MIGRATABLE_TYPE, Str(name)), Prop(MIGRATABLE_VERSION, Num(v)) >> \o fields
FieldsOf(v) ==
    IF v = 1 THEN << Prop("shape", Str("circle")) >>
    ELSE << Prop("shape", Str("circle")), Prop("color", Str("blue")) >>
Records ==
    { Tagged(name, v, FieldsOf(v)) :
        name \in TagNames, v \in Versions \cup { UnregisteredVersionTag } }
\* a text JSON.parse rejects: the string value is not quoted
Malformed == << Member("shape", "circle") >>
Inputs ==
    { Null, Undef, Text(Malformed) }
      \cup { Object(rec) : rec \in Records }
      \cup { Text(JSONstringify(rec)) :
                rec \in { q \in Records : Get(q, MIGRATABLE_TYPE) = Str("Widget") } }

\* ---------------------------------------------------------------- actions
Register(r, t, v, c) ==
    /\ \/ (t \in DOMAIN byTypeToken[r] /\ v \in DOMAIN byTypeToken[r][t])
       \/ Cardinality(Stored(byTypeToken)) < MaxRegistrations
    /\ LET res == register(byTypeToken[r], stamp, t, v, c)
       IN  /\ byTypeToken' = [ byTypeToken EXCEPT ![r] = res.map ]
           /\ stamp' = res.stamp
           /\ last' = [op |-> "register", reg |-> r, type |-> t, version |-> v,
                       ctor |-> c, error |-> res.error]
    /\ UNCHANGED toJSON

\* @registry.decorate(symbol, version) class ... : the decorator calls
\* register with the class
Decorate(r, t, v, c) ==
    /\ \/ (t \in DOMAIN byTypeToken[r] /\ v \in DOMAIN byTypeToken[r][t])
       \/ Cardinality(Stored(byTypeToken)) < MaxRegistrations
    /\ LET res == register(byTypeToken[r], stamp, t, v, c)
       IN  /\ byTypeToken' = [ byTypeToken EXCEPT ![r] = res.map ]
           /\ stamp' = res.stamp
           /\ last' = [op |-> "decorate", reg |-> r, type |-> t, version |-> v,
                       ctor |-> c, error |-> res.error]
    /\ UNCHANGED toJSON

RegistrationOf(r, c) ==
    /\ last' = [op |-> "registrationOf", reg |-> r, ctor |-> c,
                result |-> registrationOf(byTypeToken[r], stamp, c)]
    /\ UNCHANGED << byTypeToken, stamp, toJSON >>

\* registry.serialize(constructorFn): on success the returned serializer
\* replaces the one held in toJSON
Serialize(r, c) ==
    LET res == serialize(byTypeToken[r], stamp, c)
    IN  /\ last' = [op |-> "serialize", reg |-> r, ctor |-> c, result |-> res]
        /\ toJSON' = IF res.error = ""
                     THEN { [ctor |-> c, type |-> res.type, version |-> res.version] }
                     ELSE toJSON
        /\ UNCHANGED << byTypeToken, stamp >>

\* toJSON(instance)
ToJSON(instance) ==
    /\ \E s \in toJSON :
          /\ instance \in Instances(s.ctor)
          /\ last' = [op |-> "toJSON", serializer |-> s, instance |-> instance,
                      text |-> Serializer(s.type, s.version, instance)]
    /\ UNCHANGED << byTypeToken, stamp, toJSON >>

\* a deserialize that creates the family it did not find, as register does
Deserialize_creating(r, d, json) ==
    LET res == deserialize(byTypeToken[r], d, json)
        serialized == IF json.form = "string" THEN JSONparse(json.text) ELSE json.obj
        typeSymbol == SymbolFor(ToJsString(Get(serialized, MIGRATABLE_TYPE)))
    IN  /\ last' = [op |-> "deserialize", reg |-> r, provider |-> d, json |-> json,
                    result |-> res]
        /\ byTypeToken' = IF res.error = "UnregisteredType"
                          THEN [ byTypeToken EXCEPT
                                   ![r] = MapSet(@, typeSymbol, EmptyMap) ]
                          ELSE byTypeToken
        /\ UNCHANGED << stamp, toJSON >>

\* registry.deserialize(valueOnNullOrUndefined)(json)
Deserialize(r, d, json) ==
    /\ last' = [op |-> "deserialize", reg |-> r, provider |-> d, json |-> json,
                result |-> deserialize(byTypeToken[r], d, json)]
    /\ UNCHANGED << byTypeToken, stamp, toJSON >>

\* registry.deserialize(d)(registry.serialize(c)(instance))
RoundTrip(r, c, instance, d) ==
    LET bound == serialize(byTypeToken[r], stamp, c)
    IN  /\ last' = [op |-> "roundTrip", reg |-> r, ctor |-> c,
                    instance |-> instance, provider |-> d,
                    bound |-> bound.error,
                    result |-> IF bound.error # "" THEN [error |-> bound.error]
                               ELSE deserialize(byTypeToken[r], d,
                                      Text(Serializer(bound.type, bound.version,
                                                      instance)))]
        /\ UNCHANGED << byTypeToken, stamp, toJSON >>

Next ==
    \/ \E r \in Registries, t \in Tokens, v \in Versions, c \in Ctors :
          Register(r, t, v, c)
    \/ \E r \in Registries, t \in Tokens, v \in Versions, c \in Ctors :
          Decorate(r, t, v, c)
    \/ \E r \in Registries, c \in Ctors : RegistrationOf(r, c)
    \/ \E r \in Registries, c \in Ctors : Serialize(r, c)
    \/ \E c \in Ctors : \E x \in Instances(c) : ToJSON(x)
    \/ \E r \in Registries, json \in Inputs :
          \E d \in IF json.form \in { "null", "undefined" }
                   THEN Providers ELSE { "WidgetV2.defaultValue" } :
             Deserialize(r, d, json)
    \/ \E r \in Registries, c \in Ctors, d \in { "WidgetV2.defaultValue" } :
          \E x \in Instances(c) : RoundTrip(r, c, x, d)

Spec == Init /\ [][Next]_vars

\* One registry and one type token, with a chain of three classes: the
\* upgrade walk of a record is longer than one step.
ChainCtors == { "WidgetV0", "WidgetV1", "WidgetV2" }

InitChain ==
    /\ byTypeToken = [ r \in Registries |-> EmptyMap ]
    /\ stamp = [ c \in ChainCtors |-> NoStamp ]
    /\ toJSON = {}
    /\ last = [op |-> "new Registry"]

NextChain ==
    \/ \E v \in Versions, c \in ChainCtors :
          Register("registry", WidgetTypeToken, v, c)
    \/ \E json \in Inputs :
          Deserialize("registry", "WidgetV2.defaultValue", json)

SpecChain == InitChain /\ [][NextChain]_vars

\* ================================================================= claims
IsRegisterCall == last.op \in { "register", "decorate" }
\* the pair (t, v) has an entry in registry r
HasEntry(r, t, v) == t \in DOMAIN byTypeToken[r] /\ v \in DOMAIN byTypeToken[r][t]
\* the entry of (t, v) in registry r is the factory of constructor c, that
\* is, register(t, v, c) succeeded on r
Registered(r, t, v, c) == HasEntry(r, t, v) /\ byTypeToken[r][t][v].of = c

\* C1: re-registration is idempotent: once register(T, v, C) has succeeded
\* on R, a further register(T, v, C) on R (directly or through the
\* decorator) raises no error and leaves the stored registrations unchanged.
C1_ReRegistrationIdempotent ==
    [][ ( /\ IsRegisterCall'
          /\ Registered(last'.reg, last'.type, last'.version, last'.ctor) )
        => (last'.error = "" /\ byTypeToken' = byTypeToken) ]_vars

\* C2: at most one registration per (type token, version): a successful
\* register binds the pair to the factory of its constructor; an entry,
\* once stored, is never removed nor rebound; a register of a stored pair
\* with a different constructor fails with RegistrationConflict and changes
\* neither the storage nor the stamp of the rejected constructor.
C2_FirstRegistrationWins ==
    [][ /\ \A r \in Registries, t \in Tokens, v \in Versions :
             HasEntry(r, t, v) =>
                /\ t \in DOMAIN byTypeToken'[r]
                /\ v \in DOMAIN byTypeToken'[r][t]
                /\ byTypeToken'[r][t][v] = byTypeToken[r][t][v]
        /\ IsRegisterCall' =>
             LET r == last'.reg
                 t == last'.type
                 v == last'.version
                 c == last'.ctor
             IN  /\ (~HasEntry(r, t, v)) =>
                       /\ last'.error = ""
                       /\ t \in DOMAIN byTypeToken'[r]
                       /\ v \in DOMAIN byTypeToken'[r][t]
                       /\ byTypeToken'[r][t][v].of = c
                 /\ (HasEntry(r, t, v) /\ byTypeToken[r][t][v].of # c) =>
                       /\ last'.error = "RegistrationConflict"
                       /\ byTypeToken' = byTypeToken
                       /\ stamp'[c] = stamp[c] ]_vars

\* a register of a stored pair with another constructor was rejected, and
\* the rejected constructor carries no stamp of that pair
C2_Witness ==
    /\ IsRegisterCall
    /\ last.error = "RegistrationConflict"
    /\ HasEntry(last.reg, last.type, last.version)
    /\ byTypeToken[last.reg][last.type][last.version].of # last.ctor
    /\ stamp[last.ctor] # [type |-> last.type, version |-> last.version]

\* C3: immediately after a successful register(T, v, C) on R, directly or
\* through the decorator, C carries the stamp (T, v) and R.registrationOf(C)
\* returns exactly {type: T, version: v}.
C3_StampedAfterRegister ==
    (IsRegisterCall /\ last.error = "") =>
       /\ stamp[last.ctor] = [type |-> last.type, version |-> last.version]
       /\ registrationOf(byTypeToken[last.reg], stamp, last.ctor)
            = [error |-> "", type |-> last.type, version |-> last.version]

\* the decorator has just registered a constructor that an earlier
\* registration had stamped with another type token
C3_Witness ==
    /\ last.op = "decorate"
    /\ last.error = ""
    /\ \E r \in Registries, t \in Tokens, v \in Versions :
          /\ t # last.type
          /\ Registered(r, t, v, last.ctor)

\* C4: resolving a constructing type that was never stamped fails with
\* InvariantViolation: registrationOf(C) and serialize(C) both raise
\* InvariantViolation and no other error, and serialize returns no
\* serializer.
C4_UnstampedIsInvariantViolation ==
    ( /\ last.op \in { "registrationOf", "serialize" }
      /\ stamp[last.ctor] = NoStamp )
    => last.result.error = "InvariantViolation"

\* -------------------------------------------------- claims on deserialize
ReservedKeys == { MIGRATABLE_TYPE, MIGRATABLE_VERSION }
\* the last call was a deserializer applied to a record: an object, or a
\* text that parses
DeserializedRecord ==
    /\ last.op = "deserialize"
    /\ last.json.form \in { "object", "string" }
    /\ last.json.form = "string" => WellFormed(last.json.text)
TheRecord ==
    IF last.json.form = "string" THEN JSONparse(last.json.text) ELSE last.json.obj
\* the families of registry r a type tag names: those registered under an
\* interned token whose display name is the tag
FamiliesOf(r, tag) ==
    { t \in DOMAIN byTypeToken[r] : t.interned /\ Str(t.description) = tag }

\* C5: a deserializer given null or undefined returns exactly the result of
\* its default-value provider, raises no error, makes no lookup in the
\* registry, invokes no factory, and leaves the registry and the stamps as
\* they were, whatever the registry holds.
C5_NullYieldsDefault ==
    [][ ( /\ last'.op = "deserialize"
          /\ last'.json.form \in { "null", "undefined" } )
        => /\ last'.result.error = ""
           /\ last'.result.value = CallProvider(last'.provider)
           /\ last'.result.lookups = 0
           /\ last'.result.invoked = << >>
           /\ byTypeToken' = byTypeToken
           /\ stamp' = stamp ]_vars

\* undefined was deserialized on a registry that holds registrations, with
\* the provider of another class than the registered one
C5_Witness ==
    /\ last.op = "deserialize"
    /\ last.json.form = "undefined"
    /\ last.provider = "WidgetV1.defaultValue"
    /\ \E t \in Tokens : Registered(last.reg, t, 2, "WidgetV2")
    /\ last.result.value = New("WidgetV1", << Prop("shape", Str("triangle")) >>)

\* C6: a record whose type tag names no registered family fails with
\* UnregisteredType whatever its version tag; a record whose type tag names
\* a family in which its version tag is not registered fails with
\* UnregisteredVersion, also when lower or higher versions are registered;
\* in both cases no factory is invoked.
C6_LookupFailures ==
    DeserializedRecord =>
       LET tag == Get(TheRecord, MIGRATABLE_TYPE)
           ver == Get(TheRecord, MIGRATABLE_VERSION)
           families == FamiliesOf(last.reg, tag)
       IN  /\ families = { } =>
                /\ last.result.error = "UnregisteredType"
                /\ last.result.invoked = << >>
           /\ \A t \in families :
                (\A v \in DOMAIN byTypeToken[last.reg][t] : Num(v) # ver) =>
                   /\ last.result.error = "UnregisteredVersion"
                   /\ last.result.invoked = << >>

\* a record tagged version 1 failed with UnregisteredVersion although
\* version 2 of its type is registered
C6_Witness ==
    /\ DeserializedRecord
    /\ Get(TheRecord, MIGRATABLE_VERSION) = Num(1)
    /\ \E t \in FamiliesOf(last.reg, Get(TheRecord, MIGRATABLE_TYPE)) :
          /\ HasEntry(last.reg, t, 2)
          /\ ~HasEntry(last.reg, t, 1)
    /\ last.result.error = "UnregisteredVersion"

\* C7: deserializing a record tagged with a registered (type, version) pair
\* whose class has no upgrade operation returns an instance equal to the
\* one constructed directly from the record's fields without the two
\* reserved fields; the one factory invoked is the one registered for the
\* tagged version, and its argument holds neither reserved key.
C7_DirectConstruction ==
    DeserializedRecord =>
       \A t \in FamiliesOf(last.reg, Get(TheRecord, MIGRATABLE_TYPE)) :
       \A v \in DOMAIN byTypeToken[last.reg][t] :
          LET factory == byTypeToken[last.reg][t][v]
              fields == Without(TheRecord, ReservedKeys)
          IN  ( /\ Get(TheRecord, MIGRATABLE_VERSION) = Num(v)
                /\ ~HasUpgrade(New(factory.of, fields)) )
              => /\ last.result.error = ""
                 /\ StrictEqual(last.result.value, New(factory.of, fields))
                 /\ last.result.upgrades = 0
                 /\ Len(last.result.invoked) = 1
                 /\ last.result.invoked[1].fn = factory
                 /\ Keys(last.result.invoked[1].arg) \cap ReservedKeys = { }
                 /\ AsMap(last.result.invoked[1].arg) = AsMap(fields)

\* a JSON text tagged version 2 was deserialized to a WidgetV2 while
\* version 1 of the type is registered too
C7_Witness ==
    /\ DeserializedRecord
    /\ last.json.form = "string"
    /\ Get(TheRecord, MIGRATABLE_VERSION) = Num(2)
    /\ Registered(last.reg, WidgetTypeToken, 2, "WidgetV2")
    /\ Registered(last.reg, WidgetTypeToken, 1, "WidgetV1")
    /\ last.result.error = ""
    /\ last.result.value = New("WidgetV2", << Prop("shape", Str("circle")),
                                              Prop("color", Str("blue")) >>)

\* the chain of the tests is registered in registry r under token t:
\* version 1 is WidgetV1, which upgrades to WidgetV2, version 2
Chained(r, t) ==
    /\ Registered(r, t, 1, "WidgetV1")
    /\ Registered(r, t, 2, "WidgetV2")

C9_SerializerTags ==
    /\ (last.op = "serialize" /\ last.result.error = "") =>
          /\ last.result.type = stamp[last.ctor].type
          /\ last.result.version = stamp[last.ctor].version
          /\ toJSON = { [ctor |-> last.ctor, type |-> last.result.type,
                         version |-> last.result.version] }
    /\ \A s \in toJSON :
          \E r \in Registries : Registered(r, s.type, s.version, s.ctor)
    /\ last.op = "toJSON" =>
          LET s == last.serializer
              written == JSONparse(last.text)
          IN  /\ WellFormed(last.text)
              /\ Get(written, MIGRATABLE_TYPE) = Str(s.type.description)
              /\ Get(written, MIGRATABLE_VERSION) = Num(s.version)
              /\ Keys(written) \subseteq Keys(last.instance.props) \cup ReservedKeys
              /\ \A k \in Keys(last.instance.props) :
                    Get(last.instance.props, k) # Undefined =>
                       Get(written, k) = Get(last.instance.props, k)

\* a WidgetV1 registered as version 1 was serialized, tagged 1, while
\* version 2 of its type is registered
C9_Witness ==
    /\ last.op = "toJSON"
    /\ last.serializer.ctor = "WidgetV1"
    /\ last.serializer.version = 1
    /\ \E r \in Registries :
          /\ Registered(r, last.serializer.type, 1, "WidgetV1")
          /\ HasEntry(r, last.serializer.type, 2)
    /\ Get(JSONparse(last.text), MIGRATABLE_VERSION) = Num(1)
    /\ Get(JSONparse(last.text), "shape") = Str("circle")

\* C10: round trip: for a latest-version class C registered on R and an
\* instance x of C with JSON-representable fields,
\* R.deserialize(d)(R.serialize(C)(x)) raises no error and returns an
\* instance deep-equal to x.
C10_RoundTrip ==
    ( /\ last.op = "roundTrip"
      /\ \E t \in Tokens, v \in Versions : Registered(last.reg, t, v, last.ctor)
      /\ ~HasUpgrade(last.instance)
      /\ \A k \in Keys(last.instance.props) :
            Get(last.instance.props, k) # Undefined )
    => /\ last.result.error = ""
       /\ StrictEqual(last.result.value, last.instance)

\* ------------------------------------------------- claims over many calls
\* C11: old records remain valid: a record that deserializes successfully
\* on a registry still deserializes successfully, to an equal value, after
\* any further register call on that registry, successful or rejected (a
\* rejected call leaves the storage, and with it every result, as it was).
C11_OldRecordsStayValid ==
    [][ IsRegisterCall' =>
          \/ byTypeToken'[last'.reg] = byTypeToken[last'.reg]
          \/ \A json \in Inputs :
                LET before == deserialize(byTypeToken[last'.reg],
                                          "WidgetV2.defaultValue", json)
                    after == deserialize(byTypeToken'[last'.reg],
                                         "WidgetV2.defaultValue", json)
                IN  (~IsNullOrUndefined(json) /\ before.error = "") =>
                       /\ after.error = ""
                       /\ StrictEqual(after.value, before.value) ]_vars

\* a second version has just been registered on a registry on which a
\* record of the version registered before it deserializes
C11_Witness ==
    /\ IsRegisterCall
    /\ last.error = ""
    /\ last.type = WidgetTypeToken
    /\ \E v \in Versions \ { last.version } :
          /\ HasEntry(last.reg, WidgetTypeToken, v)
          /\ deserialize(byTypeToken[last.reg], "WidgetV2.defaultValue",
                         Object(Tagged("Widget", v, FieldsOf(v)))).error = ""

\* C12: the deserializer always produces the latest version: whatever
\* registered version a record is tagged with, the value returned for it
\* exposes no upgrade operation.
C12_ResultHasNoUpgrade ==
    (DeserializedRecord /\ last.result.error = "") =>
       ~HasUpgrade(last.result.value)

\* a record tagged with a version registered for WidgetV1, on a registry
\* that holds no WidgetV2 at all, came back as a WidgetV2
C12_Witness ==
    /\ DeserializedRecord
    /\ last.result.error = ""
    /\ Len(last.result.invoked) = 1
    /\ last.result.invoked[1].fn.of = "WidgetV1"
    /\ \A t \in Tokens, v \in Versions : ~Registered(last.reg, t, v, "WidgetV2")
    /\ last.result.value.class = "WidgetV2"

\* the versions registered on the registry of the last call for the type
\* its record names
RegisteredVersions ==
    UNION { DOMAIN byTypeToken[last.reg][t] :
              t \in FamiliesOf(last.reg, Get(TheRecord, MIGRATABLE_TYPE)) }
\* upgrade steps from a class to the class without upgrade
ChainLength(c) == IF c = "WidgetV0" THEN 2 ELSE IF c = "WidgetV1" THEN 1 ELSE 0

\* C13 as claimed: a deserialize call makes at most as many upgrade steps
\* as versions are registered for the record's type.
C13_StepsWithinRegisteredVersions ==
    (DeserializedRecord /\ last.result.error = "") =>
       last.result.upgrades <= Cardinality(RegisteredVersions)

\* C13, amended: the upgrade steps of a deserialize call are those of the
\* class chain, from the class registered for the record's version tag to
\* the class without upgrade, registered or not: their number is the
\* length of that chain, less than the number of classes in it, so that no
\* class is visited twice.
C13_StepsFollowClassChain ==
    (DeserializedRecord /\ last.result.error = "") =>
       /\ Len(last.result.invoked) = 1
       /\ last.result.upgrades = ChainLength(last.result.invoked[1].fn.of)
       /\ last.result.upgrades < Cardinality(ChainCtors)
       /\ ~HasUpgrade(last.result.value)

\* a record of the one registered version took two upgrade steps
C13_Witness ==
    /\ DeserializedRecord
    /\ last.result.error = ""
    /\ Cardinality(RegisteredVersions) = 1
    /\ last.result.invoked[1].fn.of = "WidgetV0"
    /\ last.result.upgrades = 2
    /\ last.result.value.class = "WidgetV2"

\* C14: serialize resolves the registration once, at binding time: a
\* successful serialize(C) binds the serializer to the type and version C
\* is stamped with at that moment; no other call, register included,
\* changes what a serializer is bound to; and every call of the serializer
\* writes the tags it was bound to, also after C was stamped anew.
C14_BoundAtBindingTime ==
    [][ /\ (last'.op = "serialize" /\ last'.result.error = "") =>
              toJSON' = { [ctor |-> last'.ctor,
                           type |-> stamp[last'.ctor].type,
                           version |-> stamp[last'.ctor].version] }
        /\ ~(last'.op = "serialize" /\ last'.result.error = "") =>
              toJSON' = toJSON
        /\ last'.op = "toJSON" =>
              /\ last'.serializer \in toJSON
              /\ Get(JSONparse(last'.text), MIGRATABLE_TYPE)
                    = Str(last'.serializer.type.description)
              /\ Get(JSONparse(last'.text), MIGRATABLE_VERSION)
                    = Num(last'.serializer.version) ]_vars

\* a serializer wrote the version it was bound to after its class was
\* stamped with another version
C14_Witness ==
    /\ last.op = "toJSON"
    /\ stamp[last.serializer.ctor].version # last.serializer.version
    /\ Get(JSONparse(last.text), MIGRATABLE_VERSION) = Num(last.serializer.version)

\* C15: deserialization has no effect on the registry: every deserialize
\* call, whether it returns an instance or fails, leaves the stored
\* (type, version) -> factory mapping of every registry and the stamp of
\* every constructor as they were before the call.
C15_DeserializeChangesNothing ==
    [][ last'.op \in { "deserialize", "roundTrip" } =>
           /\ byTypeToken' = byTypeToken
           /\ stamp' = stamp ]_vars

\* a deserialize call failed to find the type of its record on a registry
\* that holds registrations
C15_Witness ==
    /\ DeserializedRecord
    /\ last.result.error = "UnregisteredType"
    /\ DOMAIN byTypeToken[last.reg] # { }
    /\ \E c \in Ctors : stamp[c] # NoStamp

\* C16: registrationOf is sound per registry: R.registrationOf(C) returns
\* normally only if C was registered on R, and the {type, version} it
\* returns is a pair under which C was registered on R; so a serializer
\* bound through R never writes a tag pair that R maps to another
\* constructor than C.
C16_RegistrationOfSoundPerRegistry ==
    /\ (last.op = "registrationOf" /\ last.result.error = "") =>
          Registered(last.reg, last.result.type, last.result.version, last.ctor)
    /\ (last.op = "serialize" /\ last.result.error = "") =>
          Registered(last.reg, last.result.type, last.result.version, last.ctor)

\* C17: type-tag resolution finds every registered family: for every type
\* token T with version v registered on R, interned or not, deserializing
\* a record whose type tag is T's display name and whose version tag is v
\* resolves to the factory registered for (T, v) and never fails with
\* UnregisteredType.
C17_EveryRegisteredFamilyFound ==
    DeserializedRecord =>
       \A t \in DOMAIN byTypeToken[last.reg], v \in Versions :
          ( /\ Str(t.description) = Get(TheRecord, MIGRATABLE_TYPE)
            /\ Num(v) = Get(TheRecord, MIGRATABLE_VERSION)
            /\ HasEntry(last.reg, t, v) ) =>
             /\ last.result.error = ""
             /\ last.result.invoked[1].fn = byTypeToken[last.reg][t][v]
====
